---- MODULE Spec2Model ----
(***************************************************************************)
(* A model of the CMS doctors-and-clinicians ETL pipeline (etl.py):        *)
(* extract_cms_data (paginated fetch per state, specialty filter),         *)
(* transform_data (rename, null normalisation, numeric coercion, load      *)
(* timestamp, split into two tables) and load_to_bigquery / main.          *)
(*                                                                         *)
(* Cell values are strings.  The Python values that are not strings are    *)
(* written as the marker strings None, NaN and the float literals that     *)
(* to_numeric produces ("2005.0"); no input string equals a marker.        *)
(* A DataFrame is [columns, rows]: the set of column labels and the        *)
(* sequence of rows, each row a function from the labels to cell values.   *)
(* Column order and the row index are not modelled.                        *)
(***************************************************************************)
EXTENDS Integers, Sequences, FiniteSets, TLC

VARIABLES
    pc,            \* where main() is: "extract", "transform", "load_doctors",
                   \* "load_locations", "done", "raised"; "harness" when
                   \* transform_data is exercised on its own
    state,         \* index into STATES_LIST of the state being paginated
    offset,        \* extract_cms_data's offset
    result,        \* extract_cms_data's accumulator / transform_data's raw_list
    data,          \* the outcome of the latest page request
    requests,      \* the page requests issued so far, in order
    table,         \* the remote dataset: state code -> its rows
    clock,         \* the UTC clock, as last read
    df_doctors,    \* first dataset returned by transform_data
    df_locations,  \* second dataset returned by transform_data
    prev_doctors,  \* df_doctors of the previous transform_data call
    calls,         \* the times at which transform_data was called
    loads,         \* the load_to_bigquery calls made so far, with their outcome
    error          \* the exception that left main(), "none" if none

vars == <<pc, state, offset, result, data, requests, table, clock,
          df_doctors, df_locations, prev_doctors, calls, loads, error>>

----------------------------------------------------------------------------
(* Bounds of the model *)

\* page size of the model; the program's CHUNK_SIZE is 1000 (etl.py line 26)
CHUNK_SIZE == 2
\* the longest remote dataset of a state fills MaxPages - 1 pages and one row
MaxPages == 4
\* longest raw_list given to transform_data on its own
MaxRaw == 3
\* latest clock reading
MaxClock == 2
\* calls of transform_data on one input
MaxCalls == 2

----------------------------------------------------------------------------
(* Configuration, etl.py lines 22-23 *)

STATES_LIST == <<"AL", "SD">>

SPECIALTY_FILTER == <<"ORTHOPEDIC SURGERY", "DIAGNOSTIC RADIOLOGY">>

Range(s) == {s[i] : i \in DOMAIN s}

None == "<None>"
NaN == "<NaN>"

----------------------------------------------------------------------------
(* Raw records of the source.  Every record carries an npi, so that the    *)
(* deduplication never compares None (from "") with NaN (a missing key). *)

FullRecord ==
    [npi |-> "111", ind_pac_id |-> "pac1", ind_enrl_id |-> "enrl1",
     provider_last_name |-> "DOE", provider_first_name |-> "JO",
     provider_middle_name |-> "", suff |-> "", gndr |-> "M",
     grd_yr |-> "2005", pri_spec |-> "ORTHOPEDIC SURGERY",
     num_org_mem |-> "12", state |-> "AL"]

\* the same provider at another location, with a field the pipeline does not know
SecondLocation ==
    [FullRecord EXCEPT !.pri_spec = "DIAGNOSTIC RADIOLOGY", !.gndr = "F",
                       !.grd_yr = "N/A", !.num_org_mem = ""]
        @@ [new_col |-> "x"]

Cardiologist ==
    [FullRecord EXCEPT !.npi = "222", !.pri_spec = "CARDIOLOGY",
                       !.provider_last_name = "ROE"]

\* a record carrying two fields only
SparseRecord == [npi |-> "333", pri_spec |-> "DIAGNOSTIC RADIOLOGY"]

\* a record without the pri_spec field
NoSpecialty ==
    [f \in (DOMAIN FullRecord) \ {"pri_spec"} |->
        IF f = "npi" THEN "444" ELSE FullRecord[f]]

BlankNpi ==
    [FullRecord EXCEPT !.npi = "", !.grd_yr = "", !.provider_last_name = "POE"]

Samples ==
    <<FullRecord, SecondLocation, Cardiologist, SparseRecord, NoSpecialty, BlankNpi>>

\* n rows of the source, cycling through Samples from the s-th on
Rows(n, s) == [i \in 1..n |-> Samples[((i + s - 2) % Len(Samples)) + 1]]

----------------------------------------------------------------------------
(* transform_data, etl.py lines 74-145 *)

rename_map ==
    [npi |-> "npi",
     ind_pac_id |-> "individual_pac_id",
     ind_enrl_id |-> "individual_enrollment_id",
     provider_last_name |-> "provider_last_name",
     provider_first_name |-> "provider_first_name",
     provider_middle_name |-> "provider_middle_name",
     suff |-> "provider_suffix",
     gndr |-> "gender",
     cred |-> "credential",
     med_sch |-> "medical_school_name",
     grd_yr |-> "graduation_year",
     pri_spec |-> "primary_specialty",
     sec_spec_1 |-> "secondary_specialty_1",
     sec_spec_2 |-> "secondary_specialty_2",
     sec_spec_3 |-> "secondary_specialty_3",
     sec_spec_4 |-> "secondary_specialty_4",
     sec_spec_all |-> "secondary_specialties_all",
     telehlth |-> "offers_telehealth",
     facility_name |-> "facility_name",
     org_pac_id |-> "organization_pac_id",
     num_org_mem |-> "number_of_group_members",
     adr_ln_1 |-> "address_line_1",
     adr_ln_2 |-> "address_line_2",
     ln_2_sprs |-> "line2_suppression_flag",
     citytown |-> "city",
     state |-> "state",
     zip_code |-> "zip_code",
     telephone_number |-> "telephone_number",
     ind_assgn |-> "individual_accepts_medicare_assignment",
     grp_assgn |-> "group_accepts_medicare_assignment",
     adrs_id |-> "address_id",
     record_number |-> "record_number",
     bq_load_dttm |-> "bq_load_dttm"]

doctor_cols ==
    {"npi", "individual_pac_id", "individual_enrollment_id",
     "provider_last_name", "provider_first_name", "provider_middle_name",
     "provider_suffix", "gender", "bq_load_dttm"}

NoFrame == [columns |-> {}, rows |-> <<>>]

\* pd.DataFrame(raw_list): the columns are the union of the records' keys,
\* a key a record lacks is NaN in its row
DataFrame(raw_list) ==
    LET cols == UNION {DOMAIN raw_list[i] : i \in DOMAIN raw_list}
    IN [columns |-> cols,
        rows |-> [i \in DOMAIN raw_list |->
                    [c \in cols |-> IF c \in DOMAIN raw_list[i]
                                    THEN raw_list[i][c] ELSE NaN]]]

\* the label rename(columns=rename_map) gives a column: labels that are no
\* key of the map are kept as they are
Renamed(c) == IF c \in DOMAIN rename_map THEN rename_map[c] ELSE c

\* df.rename(columns=rename_map); no input carries two fields renamed to the
\* same label
rename(df) ==
    LET cols == {Renamed(c) : c \in df.columns}
        Old(label) == CHOOSE c \in df.columns : Renamed(c) = label
    IN [columns |-> cols,
        rows |-> [i \in DOMAIN df.rows |-> [c \in cols |-> df.rows[i][Old(c)]]]]

\* .replace({"": None})
replace(df) ==
    [columns |-> df.columns,
     rows |-> [i \in DOMAIN df.rows |->
                 [c \in df.columns |->
                     IF df.rows[i][c] = "" THEN None ELSE df.rows[i][c]]]]

\* pd.to_numeric(v, errors="coerce") on the values the inputs carry: a
\* decimal literal becomes its number, anything else NaN
to_numeric(v) ==
    CASE v = "2005" -> "2005.0"
      [] v = "12" -> "12.0"
      [] OTHER -> NaN

\* df[col] = pd.to_numeric(df[col], errors="coerce"), col a column of df
Coerce(df, col) ==
    [columns |-> df.columns,
     rows |-> [i \in DOMAIN df.rows |->
                 [c \in df.columns |->
                     IF c = col THEN to_numeric(df.rows[i][c]) ELSE df.rows[i][c]]]]

\* a constant stamped instead of the clock reading
WithStaleLoadTime(df, now) ==
    [columns |-> df.columns \cup {"bq_load_dttm"},
     rows |-> [i \in DOMAIN df.rows |->
                 [c \in df.columns \cup {"bq_load_dttm"} |->
                     IF c = "bq_load_dttm" THEN "t0" ELSE df.rows[i][c]]]]

\* the clock reading as a cell value
Timestamp(now) == <<"t0", "t1", "t2", "t3", "t4">>[now + 1]

\* df["bq_load_dttm"] = pd.Timestamp.utcnow(): one value for every row
WithLoadTime(df, now) ==
    [columns |-> df.columns \cup {"bq_load_dttm"},
     rows |-> [i \in DOMAIN df.rows |->
                 [c \in df.columns \cup {"bq_load_dttm"} |->
                     IF c = "bq_load_dttm" THEN Timestamp(now) ELSE df.rows[i][c]]]]

\* df[cols], cols a subset of df's columns
Select(df, cols) ==
    [columns |-> cols,
     rows |-> [i \in DOMAIN df.rows |-> [c \in cols |-> df.rows[i][c]]]]

\* df.drop(columns=cols), cols a subset of df's columns
drop(df, cols) == Select(df, df.columns \ cols)

\* the rows at the indices of keep, in order
RECURSIVE Pick(_, _, _)
Pick(rows, keep, i) ==
    IF i > Len(rows) THEN <<>>
    ELSE (IF i \in keep THEN <<rows[i]>> ELSE <<>>) \o Pick(rows, keep, i + 1)

\* keep="last": the last row of each npi is kept
drop_duplicates_last(df) ==
    [columns |-> df.columns,
     rows |-> Pick(df.rows,
                   {i \in DOMAIN df.rows :
                       \A j \in DOMAIN df.rows :
                           j > i => df.rows[j]["npi"] # df.rows[i]["npi"]}, 1)]

\* keep=False: every row whose npi occurs twice is dropped
drop_duplicates_none(df) ==
    [columns |-> df.columns,
     rows |-> Pick(df.rows,
                   {i \in DOMAIN df.rows :
                       \A j \in DOMAIN df.rows :
                           j # i => df.rows[j]["npi"] # df.rows[i]["npi"]}, 1)]

\* df.drop_duplicates(subset=["npi"]): the first row of each npi is kept
drop_duplicates(df) ==
    [columns |-> df.columns,
     rows |-> Pick(df.rows,
                   {i \in DOMAIN df.rows :
                       \A j \in DOMAIN df.rows :
                           j < i => df.rows[j]["npi"] # df.rows[i]["npi"]}, 1)]

\* no column selection before the deduplication
DoctorsAllColumns(df) == drop_duplicates(df)

\* df_raw[doctor_cols].drop_duplicates(subset=["npi"])
Doctors(df) == drop_duplicates(Select(df, doctor_cols))

\* df_raw.drop(columns=[x for x in doctor_cols if x not in ["npi", "bq_load_dttm"]])
SpecialtyAndLocations(df) == drop(df, doctor_cols \ {"npi", "bq_load_dttm"})

KeyError == [raised |-> "KeyError", doctors |-> NoFrame, locations |-> NoFrame]

\* transform_data(raw_list) called when the clock reads now; indexing a
\* column the frame does not have raises KeyError
transform_data(raw_list, now) ==
    LET renamed == replace(rename(DataFrame(raw_list)))
    IN IF "graduation_year" \notin renamed.columns THEN KeyError
       ELSE LET typed1 == Coerce(renamed, "graduation_year")
            IN IF "number_of_group_members" \notin typed1.columns THEN KeyError
               ELSE LET df_raw == WithLoadTime(
                                      Coerce(typed1, "number_of_group_members"), now)
                    IN IF ~(doctor_cols \subseteq df_raw.columns) THEN KeyError
                       ELSE [raised |-> "none",
                             doctors |-> Doctors(df_raw),
                             locations |-> SpecialtyAndLocations(df_raw)]


----------------------------------------------------------------------------
(* extract_cms_data, etl.py lines 36-68 *)

\* the remote datasets a state may hold: none, one short page, one full
\* page exactly, MaxPages - 1 full pages and one row
Lengths == {0, 1, CHUNK_SIZE, (MaxPages - 1) * CHUNK_SIZE + 1}

Datasets == {Rows(n, s) : n \in Lengths, s \in {1, 3, 4}}

\* what the source answers to [WHERE state = s][LIMIT CHUNK_SIZE OFFSET off]
Page(s, off) ==
    SubSeq(table[s], off + 1,
           IF off + CHUNK_SIZE < Len(table[s]) THEN off + CHUNK_SIZE ELSE Len(table[s]))

\* every record of the page is kept
Unfiltered(page) == page

\* [x for x in data if x.get("pri_spec") in SPECIALTY_FILTER]
Filtered(page) ==
    SelectSeq(page, LAMBDA x : /\ "pri_spec" \in DOMAIN x
                               /\ x["pri_spec"] \in Range(SPECIALTY_FILTER))

\* the loop goes on after a short page
NeverLastPage(page) == FALSE

\* if len(data) < CHUNK_SIZE: break
LastPage(page) == Len(page) < CHUNK_SIZE

\* the exception of a page request leaves the function
ExceptHandlerRaises == "raise"

\* except Exception as e: logger.error(...); break
ExceptHandler == "break"

\* break: the while loop of this state ends; the for loop goes to the next
\* state, or the function returns result to main
Break(off) ==
    IF state < Len(STATES_LIST)
    THEN /\ state' = state + 1
         /\ offset' = 0
         /\ pc' = "extract"
    ELSE /\ state' = state
         /\ offset' = off
         /\ pc' = "transform"

Request(got) == [state |-> STATES_LIST[state], offset |-> offset, got |-> got]

\* requests.get, raise_for_status or response.json() raises
RequestFails ==
    /\ pc = "extract"
    /\ requests' = Append(requests, Request(-1))
    /\ data' = [kind |-> "error", rows |-> <<>>]
    /\ IF ExceptHandler = "break"
       THEN Break(offset) /\ error' = error
       ELSE /\ pc' = "raised"
            /\ error' = "RequestException"
            /\ UNCHANGED <<state, offset>>
    /\ UNCHANGED <<result, table, clock, df_doctors, df_locations,
                   prev_doctors, calls, loads>>

\* the body decodes to an array of record objects: one pass of the loop body
PageArrives ==
    /\ pc = "extract"
    /\ LET page == Page(STATES_LIST[state], offset)
       IN /\ requests' = Append(requests, Request(Len(page)))
          /\ data' = [kind |-> "array", rows |-> page]
          /\ IF page = <<>>
             THEN Break(offset) /\ result' = result
             ELSE /\ result' = result \o Filtered(page)
                  /\ IF LastPage(page)
                     THEN Break(offset + CHUNK_SIZE)
                     ELSE /\ offset' = offset + CHUNK_SIZE
                          /\ UNCHANGED <<state, pc>>
    /\ UNCHANGED <<table, clock, df_doctors, df_locations, prev_doctors,
                   calls, loads, error>>

\* the body decodes to a falsy value that is no array (null, {}, 0, "",
\* false): "if not data: break"
FalsyBodyArrives ==
    /\ pc = "extract"
    /\ requests' = Append(requests, Request(0))
    /\ data' = [kind |-> "falsy", rows |-> <<>>]
    /\ Break(offset)
    /\ UNCHANGED <<result, table, clock, df_doctors, df_locations,
                   prev_doctors, calls, loads, error>>

\* the body decodes to a truthy value that is no array of objects: a
\* non-empty object (iterating it yields its keys, and str has no get), an
\* array of non-objects (int, str and None have no get), a number (not
\* iterable).  The comprehension of line 60 raises outside the try block.
MalformedBodyArrives ==
    /\ pc = "extract"
    /\ \E kind \in {"object", "array_of_non_objects", "number"} :
          /\ data' = [kind |-> kind, rows |-> <<>>]
          /\ error' = IF kind = "number" THEN "TypeError" ELSE "AttributeError"
    /\ requests' = Append(requests, Request(-1))
    /\ pc' = "raised"
    /\ UNCHANGED <<state, offset, result, table, clock, df_doctors,
                   df_locations, prev_doctors, calls, loads>>

----------------------------------------------------------------------------
(* load_to_bigquery and main, etl.py lines 151-178 *)

\* the exception of the load job is logged and swallowed
load_swallows(ok) == "returned"

\* load_to_bigquery(df, table_name): ok tells whether the client and the load
\* job succeed; the except block logs and re-raises
load_to_bigquery(ok) == IF ok THEN "returned" ELSE "raised"

\* df_doctors, df_locations = transform_data(raw)
TransformStep ==
    /\ pc = "transform"
    /\ \E now \in clock..MaxClock :
          LET out == transform_data(result, now)
          IN /\ clock' = now
             /\ calls' = Append(calls, now)
             /\ IF out.raised = "none"
                THEN /\ df_doctors' = out.doctors
                     /\ df_locations' = out.locations
                     /\ pc' = "load_doctors"
                     /\ error' = error
                ELSE /\ pc' = "raised"
                     /\ error' = out.raised
                     /\ UNCHANGED <<df_doctors, df_locations>>
    /\ UNCHANGED <<state, offset, result, data, requests, table,
                   prev_doctors, loads>>

Load(df, table_name, ok) == [table_name |-> table_name, rows |-> Len(df.rows), ok |-> ok]

\* load_to_bigquery(df_doctors, "doctors")
LoadDoctors ==
    /\ pc = "load_doctors"
    /\ \E ok \in BOOLEAN :
          /\ loads' = Append(loads, Load(df_doctors, "doctors", ok))
          /\ IF load_to_bigquery(ok) = "returned"
             THEN pc' = "load_locations" /\ error' = error
             ELSE pc' = "raised" /\ error' = "LoadError"
    /\ UNCHANGED <<state, offset, result, data, requests, table, clock,
                   df_doctors, df_locations, prev_doctors, calls>>

\* load_to_bigquery(df_locations, "specialty_and_locations"), then
\* logger.info("ETL pipeline completed successfully.")
LoadLocations ==
    /\ pc = "load_locations"
    /\ \E ok \in BOOLEAN :
          /\ loads' = Append(loads, Load(df_locations, "specialty_and_locations", ok))
          /\ IF load_to_bigquery(ok) = "returned"
             THEN pc' = "done" /\ error' = error
             ELSE pc' = "raised" /\ error' = "LoadError"
    /\ UNCHANGED <<state, offset, result, data, requests, table, clock,
                   df_doctors, df_locations, prev_doctors, calls>>

\* main() starts on some remote dataset
Init ==
    /\ pc = "extract"
    /\ state = 1
    /\ offset = 0
    /\ result = <<>>
    /\ data = [kind |-> "none", rows |-> <<>>]
    /\ requests = <<>>
    /\ table \in [Range(STATES_LIST) -> Datasets]
    /\ clock = 0
    /\ df_doctors = NoFrame
    /\ df_locations = NoFrame
    /\ prev_doctors = NoFrame
    /\ calls = <<>>
    /\ loads = <<>>
    /\ error = "none"

Next ==
    \/ RequestFails
    \/ PageArrives
    \/ FalsyBodyArrives
    \/ MalformedBodyArrives
    \/ TransformStep
    \/ LoadDoctors
    \/ LoadLocations

Spec == Init /\ [][Next]_vars

----------------------------------------------------------------------------
(* transform_data on its own: any raw_list, called again and again *)

RawLists == UNION {[1..n -> Range(Samples)] : n \in 0..MaxRaw}

InitTransform ==
    /\ pc = "harness"
    /\ state = 1
    /\ offset = 0
    /\ result \in RawLists
    /\ data = [kind |-> "none", rows |-> <<>>]
    /\ requests = <<>>
    /\ table = [s \in Range(STATES_LIST) |-> <<>>]
    /\ clock = 0
    /\ df_doctors = NoFrame
    /\ df_locations = NoFrame
    /\ prev_doctors = NoFrame
    /\ calls = <<>>
    /\ loads = <<>>
    /\ error = "none"

\* transform_data(result) is called at some time not before the last call
CallTransformData ==
    /\ pc = "harness"
    /\ Len(calls) < MaxCalls
    /\ \E now \in clock..MaxClock :
          LET out == transform_data(result, now)
          IN /\ clock' = now
             /\ calls' = Append(calls, now)
             /\ prev_doctors' = df_doctors
             /\ df_doctors' = out.doctors
             /\ df_locations' = out.locations
             /\ error' = out.raised
    /\ UNCHANGED <<pc, state, offset, result, data, requests, table, loads>>

NextTransform == CallTransformData

SpecTransform == InitTransform /\ [][NextTransform]_vars


----------------------------------------------------------------------------
(* Properties *)

Allowed(r) == "pri_spec" \in DOMAIN r /\ r["pri_spec"] \in Range(SPECIALTY_FILTER)

\* the cell a raw record's field becomes: absent is NaN, "" is None
Cell(r, c) == IF c \in DOMAIN r THEN (IF r[c] = "" THEN None ELSE r[c]) ELSE NaN

\* the raw fields that become the person-level columns of the doctors table
PersonFields == {c \in DOMAIN rename_map : rename_map[c] \in doctor_cols \ {"bq_load_dttm"}}

Canonical == {rename_map[c] : c \in DOMAIN rename_map}

IsPrefix(s, t) == Len(s) <= Len(t) /\ SubSeq(t, 1, Len(s)) = s

RequestsOf(s) == SelectSeq(requests, LAMBDA r : r.state = s)

Returned == calls # <<>> /\ error = "none"

\* C1: for one state the pages are requested at offsets 0, CHUNK_SIZE,
\* 2*CHUNK_SIZE, ... in that order, and a page that is non-empty but shorter
\* than CHUNK_SIZE is the last one requested for that state.
C1_Pagination ==
    \A s \in Range(STATES_LIST) :
        LET rs == RequestsOf(s)
        IN \A i \in DOMAIN rs :
              /\ rs[i].offset = (i - 1) * CHUNK_SIZE
              /\ (0 < rs[i].got /\ rs[i].got < CHUNK_SIZE) => i = Len(rs)

\* the extraction is over, and one state answered MaxPages - 1 full pages and
\* a short one: exactly MaxPages requests were made for it
C1_Witness ==
    /\ pc = "transform"
    /\ \E s \in Range(STATES_LIST) :
          LET rs == RequestsOf(s)
          IN /\ Len(rs) = MaxPages
             /\ \A i \in 1..(MaxPages - 1) : rs[i].got = CHUNK_SIZE
             /\ rs[MaxPages].got > 0 /\ rs[MaxPages].got < CHUNK_SIZE
             /\ rs[MaxPages].offset = (MaxPages - 1) * CHUNK_SIZE

\* C2: a failed page request ends the pagination of its state only: the
\* accumulator is left as it is, the next state is paginated from offset 0
\* (after the last state the accumulator is returned), and no step ever
\* removes a record from the accumulator.
C2_FailureIsolation ==
    [][/\ IsPrefix(result, result')
       /\ (requests' # requests /\ data'.kind = "error") =>
             /\ result' = result
             /\ IF state < Len(STATES_LIST)
                THEN pc' = "extract" /\ state' = state + 1 /\ offset' = 0
                ELSE pc' = "transform"]_vars

\* the second page of AL failed after records of its first page were kept,
\* and SD is about to be requested from offset 0
C2_Witness ==
    /\ pc = "extract" /\ state = 2 /\ offset = 0
    /\ data.kind = "error"
    /\ Len(requests) = 2 /\ requests[2].offset = CHUNK_SIZE
    /\ result # <<>>

\* C3: the accumulator holds allow-listed records only, every row of
\* specialty_and_locations has an allow-listed specialty, and every row of
\* doctors carries the person-level fields of an allow-listed source record.
C3_OnlyAllowed ==
    /\ \A i \in DOMAIN result : Allowed(result[i])
    /\ \A i \in DOMAIN df_locations.rows :
          df_locations.rows[i]["primary_specialty"] \in Range(SPECIALTY_FILTER)
    /\ \A i \in DOMAIN df_doctors.rows :
          \E s \in Range(STATES_LIST) : \E j \in DOMAIN table[s] :
              /\ Allowed(table[s][j])
              /\ \A c \in PersonFields :
                    df_doctors.rows[i][rename_map[c]] = Cell(table[s][j], c)

\* the run completed after a page with a record of another specialty (or of
\* none) was fetched next to allow-listed ones
C3_Witness ==
    /\ pc = "done"
    /\ result # <<>>
    /\ \E i \in DOMAIN requests :
          /\ requests[i].got > 0
          /\ \E j \in (requests[i].offset + 1)..(requests[i].offset + requests[i].got) :
                ~Allowed(table[requests[i].state][j])

\* C4: every row of specialty_and_locations has the npi of a row of doctors.
C4_ReferentialCompleteness ==
    Returned =>
        \A i \in DOMAIN df_locations.rows :
            \E j \in DOMAIN df_doctors.rows :
                df_doctors.rows[j]["npi"] = df_locations.rows[i]["npi"]

\* an input in which an npi occurs more than once was transformed
C4_Witness ==
    /\ pc = "harness" /\ Returned
    /\ Len(df_doctors.rows) >= 2
    /\ Len(df_locations.rows) > Len(df_doctors.rows)

\* C5: doctors has exactly one row per distinct npi of the input, and the
\* row of an npi carries the person-level fields of the first input record
\* with that npi.
C5_FirstSeenWins ==
    Returned =>
        LET npis == {result[i]["npi"] : i \in DOMAIN result}
            First(v) == CHOOSE i \in DOMAIN result :
                            /\ result[i]["npi"] = v
                            /\ \A j \in 1..(i - 1) : result[j]["npi"] # v
        IN /\ Len(df_doctors.rows) = Cardinality(npis)
           /\ \A v \in npis :
                 \E k \in DOMAIN df_doctors.rows :
                     \A c \in PersonFields :
                         df_doctors.rows[k][rename_map[c]] = Cell(result[First(v)], c)

\* two input records share an npi and differ in a person-level field
C5_Witness ==
    /\ pc = "harness" /\ Returned
    /\ \E i, j \in DOMAIN result :
          /\ i < j
          /\ result[i]["npi"] = result[j]["npi"]
          /\ "gndr" \in DOMAIN result[i] /\ "gndr" \in DOMAIN result[j]
          /\ result[i]["gndr"] # result[j]["gndr"]

\* C6: a failed load is the last call made and leaves main() as an error;
\* completion is reported only after doctors and then
\* specialty_and_locations were loaded.
C6_LoadFailureAborts ==
    /\ \A i \in DOMAIN loads :
          ~loads[i].ok => (i = Len(loads) /\ pc = "raised" /\ error = "LoadError")
    /\ pc = "done" =>
          /\ Len(loads) = 2
          /\ loads[1].table_name = "doctors" /\ loads[1].ok
          /\ loads[2].table_name = "specialty_and_locations" /\ loads[2].ok

\* the load of doctors failed
C6_Witness ==
    /\ pc = "raised"
    /\ Len(loads) = 1 /\ loads[1].table_name = "doctors" /\ ~loads[1].ok

\* C7: transform_data returns two empty datasets for an empty input, and
\* does not raise.
C7_EmptyInputAccepted ==
    (result = <<>> /\ calls # <<>>) => error = "none"

C9_SameDoctorsTwice ==
    Len(calls) >= 2 => df_doctors = prev_doctors

\* C9 as amended: two calls on the same input return doctors datasets that
\* agree in every column but bq_load_dttm, which holds in every row the
\* clock reading of its own call.
C9_SameDoctorsButLoadTime ==
    (Len(calls) >= 2 /\ error = "none") =>
        /\ drop(df_doctors, {"bq_load_dttm"}) = drop(prev_doctors, {"bq_load_dttm"})
        /\ \A i \in DOMAIN df_doctors.rows :
              df_doctors.rows[i]["bq_load_dttm"] = Timestamp(calls[Len(calls)])
        /\ \A i \in DOMAIN prev_doctors.rows :
              prev_doctors.rows[i]["bq_load_dttm"] = Timestamp(calls[Len(calls) - 1])

\* the same input was transformed at two different times
C9_Witness ==
    /\ Len(calls) = 2 /\ calls[1] # calls[2]
    /\ error = "none"
    /\ df_doctors.rows # <<>>

\* C10: a body that is no array of record objects never makes the
\* extraction raise.
C10_MalformedBodyHandled ==
    data.kind \in {"object", "array_of_non_objects", "number"} => pc # "raised"


====
